---- MODULE Spec2Model ----
(***************************************************************************)
(* A model of the keyword matcher (EnhancedRedditScraper.scrape_subreddit, *)
(* src/enhanced_scraper.py) and of the post-hoc filter (filter_results,    *)
(* src/advanced_scraper_ui.py) of the reddit scraper.                      *)
(*                                                                         *)
(* Text is a sequence of one-character strings; str.lower() maps each      *)
(* character.  A dict is a record; a key that may be absent                *)
(* (matching_comments) is a field that may be missing from the record's    *)
(* DOMAIN.  An ordered dict (the grouped result set) is a sequence of      *)
(* [key, posts] entries with pairwise different keys.  A call that raises  *)
(* is the outcome [status |-> "raise", exc |-> <exception type>].          *)
(*                                                                         *)
(* Fields of a post that are only copied from the submission and never     *)
(* read by the matcher or the filter (url, author, upvote_ratio,           *)
(* num_comments, permalink; a comment's author, score and created_utc)     *)
(* are left out of the records.                                            *)
(***************************************************************************)
EXTENDS Integers, Sequences, FiniteSets, TLC

VARIABLES
    pc,                   \* "idle", or the operation that ran last
    call,                 \* arguments and API behaviour of the last scrape_subreddit call
    ret,                  \* return value of the last scrape_subreddit call
    mcall,                \* arguments and API behaviour of the last search_multiple_subreddits call
    mret,                 \* return value of the last search_multiple_subreddits call
    raised,               \* the exception that left the last scraper call, "none" if it returned
    last_search_results,  \* EnhancedRedditScraper.last_search_results
    replaced,             \* the API's submissions whose comment forest replace_more has changed
    requests,             \* the subreddits whose listing has been requested from the API, in order
    fargs,                \* filter_results: the arguments as they were when the last call began
    fresults,             \* filter_results: the `results` object after the last call
    ffilters,             \* filter_results: the `filters` object after the last call
    fout,                 \* filter_results: outcome of the last call
    fout2,                \* filter_results: outcome of a second call on the same objects
    session,              \* st.session_state: results, scraper, search_history, filters
    run_ret               \* return value of the last run_search call

vars == <<pc, call, ret, mcall, mret, raised, last_search_results, replaced, requests,
          fargs, fresults, ffilters, fout, fout2, session, run_ret>>

----------------------------------------------------------------------------
(* Bounds of the model *)

\* the most submissions the API listing yields for one call (the `limit` argument)
MaxPosts == 2

\* ticks of the clock per calendar day (a day has more than one instant)
TicksPerDay == 2

\* the most posts a grouped result set handed to filter_results holds in all
MaxFilterPosts == 2
MaxGroups == 2
MaxHistory == 2

----------------------------------------------------------------------------
(* Text *)

\* str.lower() on one character
Lower(c) ==
    CASE c = "A" -> "a"
      [] c = "B" -> "b"
      [] OTHER -> c

\* a mutant of str_lower: the text is left as it is, so the comparison is
\* case-sensitive
str_lower_identity(s) == s

\* str.lower()
str_lower(s) == [i \in 1..Len(s) |-> Lower(s[i])]

\* Python's `needle in hay` on str: a contiguous occurrence at some offset
str_in(needle, hay) ==
    \E off \in 0..(Len(hay) - Len(needle)) :
        \A j \in 1..Len(needle) : hay[off + j] = needle[j]

\* a mutant of any_keyword_in: every keyword has to occur (all instead of any)
all_keywords_in(keywords, text) ==
    \A k \in 1..Len(keywords) : str_in(str_lower(keywords[k]), str_lower(text))

\* any(keyword.lower() in text.lower() for keyword in keywords)
any_keyword_in(keywords, text) ==
    \E k \in 1..Len(keywords) : str_in(str_lower(keywords[k]), str_lower(text))

----------------------------------------------------------------------------
(* Time *)

\* datetime.datetime.fromtimestamp(t): seconds since the epoch to a date-time
datetime_fromtimestamp(t) ==
    [type |-> "datetime", day |-> t \div TicksPerDay, tick |-> t % TicksPerDay]

\* dt.strftime('%Y-%m-%d %H:%M:%S'): the text "<date> <time>", a sequence of
\* its two fields
strftime(dt) == <<dt.day, dt.tick>>

\* does text s match the format '%Y-%m-%d %H:%M:%S' (strptime raises
\* ValueError when it does not)
strptime_ok(s) ==
    /\ Len(s) = 2
    /\ s[1] \in Nat
    /\ s[2] \in 0..(TicksPerDay - 1)

\* datetime.strptime(s, '%Y-%m-%d %H:%M:%S') of a text that matches the format
strptime(s) == [type |-> "datetime", day |-> s[1], tick |-> s[2]]

----------------------------------------------------------------------------
(* The API client's objects, as scrape_subreddit reads them *)

\* keywords of the searches
KwLower == <<"a">>
KwUpper == <<"A", "B">>
KwEmpty == <<>>

\* the keyword lists a caller passes (the last one holds the empty string)
KeywordLists == { <<>>, <<KwLower>>, <<KwUpper>>, <<KwUpper, KwLower>>, <<KwEmpty>> }

TitlePool == { <<"b", "b">>, <<"b", "A">> }
SelftextPool == { <<>>, <<"a", "B">> }
ScorePool == {0, 1}
MinScorePool == {0, 1}

\* comments: one without a keyword, two different ones with a keyword
Filler == [body |-> <<"b">>]
HitOne == [body |-> <<"A", "b">>]
HitTwo == [body |-> <<"b", "a">>]

Fillers(n) == [i \in 1..n |-> Filler]
Hits(n) == [i \in 1..n |-> HitTwo]

\* submission.comments.list() after replace_more: the flattened comment list
CommentListPool ==
    { <<>>,
      <<HitOne, Filler, HitTwo>>,
      Fillers(19) \o <<HitOne, HitTwo>>,
      Fillers(20) \o <<HitTwo>>,
      Hits(21) }

\* a submission of the listing, without its id and creation time
SubmissionPool ==
    [title : TitlePool, selftext : SelftextPool, score : ScorePool,
     comments : CommentListPool]

\* subreddit.hot/new/top/rising(limit): the i-th submission has id i and was
\* created at instant i
Listing(seq) ==
    [i \in 1..Len(seq) |->
        [id |-> i, title |-> seq[i].title, selftext |-> seq[i].selftext,
         score |-> seq[i].score, created_utc |-> i, comments |-> seq[i].comments]]

\* the submissions that follow the first one of a listing: without body text,
\* with no comment or with the short comment list
FollowerPool ==
    { s \in SubmissionPool :
        s.selftext = <<>> /\ s.comments \in { <<>>, <<HitOne, Filler, HitTwo>> } }

SeqsUpTo(S, n) == UNION { [1..k -> S] : k \in 0..n }

\* the sequences of at most n elements whose first element is drawn from
\* First and whose later elements are drawn from Later
SeqsFirstLater(First, Later, n) ==
    IF n = 0
    THEN { <<>> }
    ELSE { <<>> } \cup { <<h>> \o t : h \in First, t \in SeqsUpTo(Later, n - 1) }

Listings ==
    { Listing(seq) : seq \in SeqsFirstLater(SubmissionPool, FollowerPool, MaxPosts) }

\* How the API behaves during one scrape_subreddit call: the listing it
\* yields and the request that fails, if any.  A "listing" fault at k is
\* raised when the listing is asked for its k-th submission (k = length + 1:
\* when it is asked for more after the last one); a "comments" fault at i is
\* raised by replace_more on the i-th submission
NoFault == [kind |-> "none", at |-> 0, exc |-> "none"]
ListingFault(k) == [kind |-> "listing", at |-> k, exc |-> "ResponseException"]
CommentsFault(i) == [kind |-> "comments", at |-> i, exc |-> "RequestException"]

Faults(n) == { ListingFault(k) : k \in 1..(n + 1) } \cup { CommentsFault(i) : i \in 1..n }

FollowerListings == { Listing(seq) : seq \in SeqsUpTo(FollowerPool, MaxPosts) }

ApiBehaviours ==
    { [submissions |-> l, fault |-> NoFault] : l \in Listings }
    \cup UNION { { [submissions |-> l, fault |-> f] : f \in Faults(Len(l)) } :
                 l \in FollowerListings }

\* the subreddit of a single scrape_subreddit call
SingleSubreddit == "cuny"

SubredditNames == { "cuny", "college" }

\* the `subreddits` argument: a list of names, a name may occur twice
SubredditLists == SeqsUpTo(SubredditNames, MaxGroups)

\* a submission that matches "a" through its comments only, and one that
\* matches it through its title only
Quiet == [title |-> <<"b", "b">>, selftext |-> <<>>, score |-> 1,
          comments |-> <<HitOne, Filler, HitTwo>>]
Loud == [title |-> <<"b", "A">>, selftext |-> <<>>, score |-> 1, comments |-> <<>>]

\* how the API behaves for one subreddit of a multi-subreddit search
GroupBehaviours ==
    { [submissions |-> Listing(<<>>), fault |-> NoFault],
      [submissions |-> Listing(<<Loud>>), fault |-> NoFault],
      [submissions |-> Listing(<<Quiet, Loud>>), fault |-> NoFault],
      [submissions |-> Listing(<<Loud>>), fault |-> ListingFault(2)],
      [submissions |-> Listing(<<Quiet>>), fault |-> CommentsFault(1)] }

\* reddit as a multi-subreddit search meets it
Reddits == [SubredditNames -> GroupBehaviours]

----------------------------------------------------------------------------
(* EnhancedRedditScraper.scrape_subreddit *)

\* `[:20]`: the number of comments of the flattened list that are examined
CommentLimit == 20

\* a mutant of score_rejected: a score equal to min_score is rejected too
score_rejected_inclusive(submission, min_score) == submission.score <= min_score

\* `if submission.score < min_score: continue`
score_rejected(submission, min_score) == submission.score < min_score

\* a mutant of examined_comments: the whole flattened list is examined
examined_comments_all(submission) == submission.comments

\* `submission.comments.list()[:20]`
examined_comments(submission) ==
    SubSeq(submission.comments, 1,
           IF Len(submission.comments) < CommentLimit
           THEN Len(submission.comments) ELSE CommentLimit)

\* a mutant of comments_data: once a comment matches, every examined comment
\* is collected
comments_data_all(submission, keywords, include_comments) ==
    IF /\ include_comments
       /\ \E i \in 1..Len(examined_comments(submission)) :
             any_keyword_in(keywords, examined_comments(submission)[i].body)
    THEN examined_comments(submission)
    ELSE <<>>

\* the loop over the examined comments: comments_data, the matching comments
\* in their order (empty when include_comments is false); comment_match is
\* true exactly when comments_data is not empty
comments_data(submission, keywords, include_comments) ==
    IF include_comments
    THEN SelectSeq(examined_comments(submission),
                   LAMBDA comment : any_keyword_in(keywords, comment.body))
    ELSE <<>>

title_match(submission, keywords) == any_keyword_in(keywords, submission.title)

\* a mutant of selftext_match: the operands of `in` are swapped, the body is
\* looked for in the keyword
selftext_match_swapped(submission, keywords, include_selftext) ==
    /\ include_selftext
    /\ \E k \in 1..Len(keywords) :
          str_in(str_lower(submission.selftext), str_lower(keywords[k]))

selftext_match(submission, keywords, include_selftext) ==
    include_selftext /\ any_keyword_in(keywords, submission.selftext)

\* a mutant of post_data: matching_comments is set on every post
post_data_always_comments(submission, include_comments, cdata) ==
    [id |-> submission.id, title |-> submission.title,
     text |-> submission.selftext, score |-> submission.score,
     created_utc |-> strftime(datetime_fromtimestamp(submission.created_utc)),
     matching_comments |-> cdata]

\* the dict appended to the results for a matching submission
post_data(submission, include_comments, cdata) ==
    LET created_time == datetime_fromtimestamp(submission.created_utc) IN
    IF include_comments /\ cdata # <<>>
    THEN [id |-> submission.id, title |-> submission.title,
          text |-> submission.selftext, score |-> submission.score,
          created_utc |-> strftime(created_time), matching_comments |-> cdata]
    ELSE [id |-> submission.id, title |-> submission.title,
          text |-> submission.selftext, score |-> submission.score,
          created_utc |-> strftime(created_time)]

\* a mutant of store_last_search_results: the attribute keeps the empty list
\* of the construction
store_nothing(results) == <<>>

\* line 123, `self.last_search_results = results`: the attribute after the
\* assignment
store_last_search_results(results) == results

\* a mutant of replace_more: the comment forest is read without being changed
replace_more_untouched(forests, submission) == forests

\* line 89, `submission.comments.replace_more(limit=3)`: the call loads further
\* comments into the submission's comment forest and removes the remaining
\* placeholders from it, so the API's object is changed; forests is the set
\* of the submissions changed so far
replace_more(forests, submission) == forests \cup {submission.id}

\* the `for submission in submissions` loop, from the i-th submission of the
\* listing on.  acc.results is the results list so far, acc.replaced the ids
\* of the submissions whose comment forest replace_more was called on.  The
\* outcome is [exc, results, replaced]: exc is "none" when the loop ran to
\* the end of the listing, otherwise the exception the API raised, which no
\* statement of the loop catches
RECURSIVE scrape_loop(_, _, _, _, _)
scrape_loop(submissions, fault, i, args, acc) ==
    IF fault.kind = "listing" /\ fault.at = i
    THEN [exc |-> fault.exc, results |-> acc.results, replaced |-> acc.replaced]
    ELSE IF i > Len(submissions)
    THEN [exc |-> "none", results |-> acc.results, replaced |-> acc.replaced]
    ELSE
        LET submission == submissions[i] IN
        IF score_rejected(submission, args.min_score)
        THEN scrape_loop(submissions, fault, i + 1, args, acc)
        ELSE
            LET forests == IF args.include_comments
                           THEN replace_more(acc.replaced, submission)
                           ELSE acc.replaced
                cdata == comments_data(submission, args.keywords, args.include_comments)
                comment_match == cdata # <<>>
            IN  IF args.include_comments /\ fault.kind = "comments" /\ fault.at = i
                THEN [exc |-> fault.exc, results |-> acc.results, replaced |-> forests]
                ELSE IF \/ title_match(submission, args.keywords)
                        \/ selftext_match(submission, args.keywords, args.include_selftext)
                        \/ comment_match
                     THEN scrape_loop(submissions, fault, i + 1, args,
                              [results |-> Append(acc.results,
                                                  post_data(submission, args.include_comments, cdata)),
                               replaced |-> forests])
                     ELSE scrape_loop(submissions, fault, i + 1, args,
                              [results |-> acc.results, replaced |-> forests])

\* a mutant of scrape_subreddit: an exception of the API is caught and the
\* results found so far are returned
scrape_subreddit_catching(self_last, subreddit_name, api, args) ==
    LET r == scrape_loop(api.submissions, api.fault, 1, args,
                         [results |-> <<>>, replaced |-> {}])
    IN  [exc |-> "none", ret |-> r.results,
         last_search_results |-> store_last_search_results(r.results),
         replaced |-> { <<subreddit_name, id>> : id \in r.replaced },
         requests |-> <<subreddit_name>>]

\* scrape_subreddit(subreddit_name, keywords, ...) on a scraper whose
\* last_search_results is self_last, against the API behaviour `api` (the
\* listing of the subreddit and the failure of the API, if any).  One listing
\* is requested (lines 56-69); when the loop ends, the results are stored and
\* returned (lines 122-124); an exception leaves the function from where it
\* was raised, so nothing is stored and nothing returned (ret is then
\* meaningless)
scrape_subreddit(self_last, subreddit_name, api, args) ==
    LET r == scrape_loop(api.submissions, api.fault, 1, args,
                         [results |-> <<>>, replaced |-> {}])
    IN  [exc |-> r.exc,
         ret |-> IF r.exc = "none" THEN r.results ELSE <<>>,
         last_search_results |-> IF r.exc = "none"
                                 THEN store_last_search_results(r.results)
                                 ELSE self_last,
         replaced |-> { <<subreddit_name, id>> : id \in r.replaced },
         requests |-> <<subreddit_name>>]

\* the arguments of a search
SearchArgs ==
    [keywords : KeywordLists, include_comments : BOOLEAN,
     include_selftext : BOOLEAN, min_score : MinScorePool]

\* one invocation of scrape_subreddit from the scraper's construction
ScrapeSubreddit ==
    /\ pc = "idle"
    /\ \E api \in ApiBehaviours, args \in SearchArgs :
         LET r == scrape_subreddit(last_search_results, SingleSubreddit, api, args)
         IN  /\ pc' = "scrape_subreddit"
             /\ call' = [submissions |-> api.submissions, fault |-> api.fault,
                         keywords |-> args.keywords,
                         include_comments |-> args.include_comments,
                         include_selftext |-> args.include_selftext,
                         min_score |-> args.min_score]
             /\ raised' = r.exc
             /\ ret' = r.ret
             /\ last_search_results' = r.last_search_results
             /\ replaced' = r.replaced
             /\ requests' = r.requests
             /\ UNCHANGED <<mcall, mret, fargs, fresults, ffilters, fout, fout2,
                            session, run_ret>>

----------------------------------------------------------------------------
(* EnhancedRedditScraper.search_multiple_subreddits *)

\* a mutant of dict_set: a post whose id is already in another key's list is
\* dropped from the value
dict_set_dedup(results, key, value) ==
    LET fresh == SelectSeq(value, LAMBDA p :
                     \A i \in 1..Len(results) :
                         \/ results[i].key = key
                         \/ \A j \in 1..Len(results[i].posts) :
                               results[i].posts[j].id # p.id)
    IN  IF \E i \in 1..Len(results) : results[i].key = key
        THEN [i \in 1..Len(results) |->
                IF results[i].key = key
                THEN [key |-> key, posts |-> fresh]
                ELSE results[i]]
        ELSE Append(results, [key |-> key, posts |-> fresh])

\* `results[subreddit] = value` on the ordered dict `results`: a key that is
\* already there keeps its place and gets the new value
dict_set(results, key, value) ==
    IF \E i \in 1..Len(results) : results[i].key = key
    THEN [i \in 1..Len(results) |->
            IF results[i].key = key
            THEN [key |-> key, posts |-> value]
            ELSE results[i]]
    ELSE Append(results, [key |-> key, posts |-> value])

\* the `for subreddit in subreddits` loop.  st is the state the calls share:
\* the scraper's last_search_results, the comment forests replaced and the
\* listings requested.  An exception of a scrape_subreddit call leaves the
\* loop and the function
RECURSIVE search_loop(_, _, _, _, _)
search_loop(subreddits, reddit, args, results, st) ==
    IF subreddits = <<>>
    THEN [exc |-> "none", ret |-> results,
          last_search_results |-> st.last_search_results,
          replaced |-> st.replaced, requests |-> st.requests]
    ELSE
        LET subreddit == Head(subreddits)
            r == scrape_subreddit(st.last_search_results, subreddit,
                                  reddit[subreddit], args)
            after == [last_search_results |-> r.last_search_results,
                      replaced |-> st.replaced \cup r.replaced,
                      requests |-> st.requests \o r.requests]
        IN  IF r.exc # "none"
            THEN [exc |-> r.exc, ret |-> <<>>,
                  last_search_results |-> after.last_search_results,
                  replaced |-> after.replaced, requests |-> after.requests]
            ELSE search_loop(Tail(subreddits), reddit, args,
                             dict_set(results, subreddit, r.ret), after)

\* search_multiple_subreddits(subreddits, keywords, **kwargs)
search_multiple_subreddits(self_last, subreddits, reddit, args) ==
    search_loop(subreddits, reddit, args, <<>>,
                [last_search_results |-> self_last, replaced |-> {},
                 requests |-> <<>>])

\* one invocation of search_multiple_subreddits from the scraper's
\* construction
SearchMultipleSubreddits ==
    /\ pc = "idle"
    /\ \E subreddits \in SubredditLists, reddit \in Reddits, args \in SearchArgs :
         LET r == search_multiple_subreddits(last_search_results, subreddits,
                                             reddit, args)
         IN  /\ pc' = "search_multiple_subreddits"
             /\ mcall' = [subreddits |-> subreddits, reddit |-> reddit, args |-> args]
             /\ raised' = r.exc
             /\ mret' = r.ret
             /\ last_search_results' = r.last_search_results
             /\ replaced' = r.replaced
             /\ requests' = r.requests
             /\ UNCHANGED <<call, ret, fargs, fresults, ffilters, fout, fout2,
                            session, run_ret>>

----------------------------------------------------------------------------
(* filter_results *)

None == [type |-> "NoneType"]

\* datetime.date(day): what st.date_input delivers
Date(day) == [type |-> "date", day |-> day]

\* datetime.datetime(day, tick)
DateTime(day, tick) == [type |-> "datetime", day |-> day, tick |-> tick]

\* truth value of a filter's date bound: None is false, a date or a date-time
\* is true
Truthy(v) == v.type # "NoneType"

\* can `post_date < bound` / `post_date > bound` be evaluated for a
\* datetime.datetime post_date: comparing it with a datetime.date that is not
\* a datetime.datetime raises TypeError
comparable(bound) == bound.type = "datetime"

\* a < b on two datetime.datetime values
datetime_lt(a, b) == a.day < b.day \/ (a.day = b.day /\ a.tick < b.tick)

\* `if post['score'] < filters['min_score']: continue`
filter_score_rejected(post, filters) == post.score < filters.min_score

\* `post_date < filters['date_from']`
before_date_from(post_date, date_from) == datetime_lt(post_date, date_from)

\* `post_date > filters['date_to']`
after_date_to(post_date, date_to) == datetime_lt(date_to, post_date)

\* a mutant of lacks_matching_comments: only the absence of the key is tested
lacks_matching_comments_key_only(post) == "matching_comments" \notin DOMAIN post

\* `'matching_comments' not in post or not post['matching_comments']`
lacks_matching_comments(post) ==
    \/ "matching_comments" \notin DOMAIN post
    \/ post.matching_comments = <<>>

\* the check of lines 105-108, reached when the score and date checks passed
comments_check(post, filters) ==
    IF filters.show_only_with_comments /\ lacks_matching_comments(post)
    THEN "skip"
    ELSE "keep"

\* one pass of the body of `for post in posts`: "keep" (appended), "skip"
\* (continue), or the exception the body raises
filter_post(post, filters) ==
    IF filter_score_rejected(post, filters)
    THEN "skip"
    ELSE IF ~(Truthy(filters.date_from) \/ Truthy(filters.date_to))
    THEN comments_check(post, filters)
    ELSE IF ~strptime_ok(post.created_utc)
    THEN "ValueError"
    ELSE
        LET post_date == strptime(post.created_utc) IN
        IF Truthy(filters.date_from) /\ ~comparable(filters.date_from)
        THEN "TypeError"
        ELSE IF Truthy(filters.date_from)
                /\ before_date_from(post_date, filters.date_from)
        THEN "skip"
        ELSE IF Truthy(filters.date_to) /\ ~comparable(filters.date_to)
        THEN "TypeError"
        ELSE IF Truthy(filters.date_to) /\ after_date_to(post_date, filters.date_to)
        THEN "skip"
        ELSE comments_check(post, filters)

Return(value) == [status |-> "return", value |-> value]
Raise(exc) == [status |-> "raise", exc |-> exc]

\* the loop `for post in posts`: filtered_posts, or the exception that ends it
RECURSIVE filter_posts_from(_, _, _)
filter_posts_from(posts, filters, filtered_posts) ==
    IF posts = <<>>
    THEN Return(filtered_posts)
    ELSE
        LET outcome == filter_post(Head(posts), filters) IN
        IF outcome = "keep"
        THEN filter_posts_from(Tail(posts), filters, Append(filtered_posts, Head(posts)))
        ELSE IF outcome = "skip"
        THEN filter_posts_from(Tail(posts), filters, filtered_posts)
        ELSE Raise(outcome)

\* a mutant of filter_posts: the first post of a group is not looked at
filter_posts_skip_first(posts, filters) ==
    IF posts = <<>>
    THEN Return(<<>>)
    ELSE filter_posts_from(Tail(posts), filters, <<>>)

\* a mutant of filter_posts: a kept post is put in front of the earlier ones
RECURSIVE filter_posts_reversed(_, _)
filter_posts_reversed(posts, filters) ==
    IF posts = <<>>
    THEN Return(<<>>)
    ELSE
        LET outcome == filter_post(Head(posts), filters)
            rest == filter_posts_reversed(Tail(posts), filters)
        IN  IF outcome \notin {"keep", "skip"}
            THEN Raise(outcome)
            ELSE IF rest.status = "raise" \/ outcome = "skip"
            THEN rest
            ELSE Return(Append(rest.value, Head(posts)))

\* `filtered_posts = []` and the loop over the posts of one group
filter_posts(posts, filters) == filter_posts_from(posts, filters, <<>>)

\* a mutant of add_group: a group without a surviving post is left out
add_group_unless_empty(filtered, subreddit, filtered_posts) ==
    IF filtered_posts = <<>>
    THEN filtered
    ELSE Append(filtered, [key |-> subreddit, posts |-> filtered_posts])

\* `filtered[subreddit] = filtered_posts`: the keys of `results` are pairwise
\* different, so the entry is new and comes last
add_group(filtered, subreddit, filtered_posts) ==
    Append(filtered, [key |-> subreddit, posts |-> filtered_posts])

\* the loop `for subreddit, posts in results.items()`
RECURSIVE filter_groups(_, _, _)
filter_groups(items, filters, filtered) ==
    IF items = <<>>
    THEN Return(filtered)
    ELSE
        LET r == filter_posts(Head(items).posts, filters) IN
        IF r.status = "raise"
        THEN r
        ELSE filter_groups(Tail(items), filters,
                           add_group(filtered, Head(items).key, r.value))

\* filter_results(results, filters): the mapping returned, or the exception
filter_results(results, filters) == filter_groups(results, filters, <<>>)

----------------------------------------------------------------------------
(* The arguments of filter_results *)

\* the creation times of posts: before, at and after day 1 tick 0, as
\* strftime writes them, and a text that holds a date without a time
Unparseable == <<1>>
CreatedPool == { strftime(DateTime(0, 1)), strftime(DateTime(1, 0)),
                 strftime(DateTime(1, 1)), Unparseable }

\* a post of a result set without its id: without the matching_comments key,
\* with an empty list, with one matching comment
FilterPostPool ==
    [score : ScorePool, created_utc : CreatedPool]
    \cup [score : ScorePool, created_utc : CreatedPool, matching_comments : { <<>> }]
    \cup [score : ScorePool, created_utc : CreatedPool,
          matching_comments : { <<HitOne>> }]

\* the posts that follow the first one of a result set
FilterFollowerPool ==
    { p \in FilterPostPool :
        /\ p.score = 1
        /\ p.created_utc # strftime(DateTime(0, 1))
        /\ ("matching_comments" \in DOMAIN p => p.matching_comments # <<>>) }

\* the post record with the fields scrape_subreddit gives it
WithId(p, i) ==
    IF "matching_comments" \in DOMAIN p
    THEN [id |-> i, title |-> <<"b", "A">>, text |-> <<>>, score |-> p.score,
          created_utc |-> p.created_utc, matching_comments |-> p.matching_comments]
    ELSE [id |-> i, title |-> <<"b", "A">>, text |-> <<>>, score |-> p.score,
          created_utc |-> p.created_utc]

\* the key sequences of the grouped result sets
KeySeqs == { <<>>, <<"cuny">>, <<"cuny", "collegequestions">> }

\* the posts seq[from..to], numbered by their place in seq
Numbered(seq, from, to) == [i \in 1..(to - from + 1) |-> WithId(seq[from + i - 1], from + i - 1)]

\* the grouped result sets made of the posts of seq: no group (when seq is
\* empty), one group, or two groups with the posts split at any place
Groupings(seq) ==
    (IF seq = <<>> THEN { <<>> } ELSE {})
    \cup { <<[key |-> "cuny", posts |-> Numbered(seq, 1, Len(seq))]>> }
    \cup { <<[key |-> "cuny", posts |-> Numbered(seq, 1, cut)],
             [key |-> "collegequestions", posts |-> Numbered(seq, cut + 1, Len(seq))]>> :
           cut \in 0..Len(seq) }

ResultSets ==
    UNION { Groupings(seq) :
            seq \in SeqsFirstLater(FilterPostPool, FilterFollowerPool, MaxFilterPosts) }

MinScoreFilterPool == {0, 1}
DateFromPool == { None, Date(1), DateTime(1, 0) }
DateToPool == { None, Date(1), DateTime(1, 0) }

FilterPool ==
    [min_score : MinScoreFilterPool, date_from : DateFromPool, date_to : DateToPool,
     show_only_with_comments : BOOLEAN]

\* a mutant of results_after: the filtered lists are written back into the
\* mapping that was passed in
results_after_written_back(results, filters) ==
    IF filter_results(results, filters).status = "return"
    THEN filter_results(results, filters).value
    ELSE results

\* the `results` object after filter_results(results, filters): the function
\* fills a new dict (`filtered`) with new lists (`filtered_posts`) and assigns
\* to nothing that is reachable from `results`
results_after(results, filters) == results

\* the `filters` object after filter_results(results, filters): the function
\* only reads it
filters_after(results, filters) == filters

\* filter_results(results, filters), a first invocation
FilterResults ==
    /\ pc = "idle"
    /\ \E results \in ResultSets, filters \in FilterPool :
         /\ pc' = "filter_results"
         /\ fargs' = [results |-> results, filters |-> filters]
         /\ fout' = filter_results(results, filters)
         /\ fresults' = results_after(results, filters)
         /\ ffilters' = filters_after(results, filters)
         /\ UNCHANGED <<call, ret, mcall, mret, raised, last_search_results,
                        replaced, requests, fout2, session, run_ret>>

\* filter_results called once more on the same two objects, as main() does on
\* st.session_state.results and st.session_state.filters (lines 452, 550, 568)
FilterResultsAgain ==
    /\ pc = "filter_results"
    /\ pc' = "filter_results_again"
    /\ fout2' = filter_results(fresults, ffilters)
    /\ fresults' = results_after(fresults, ffilters)
    /\ ffilters' = filters_after(fresults, ffilters)
    /\ UNCHANGED <<call, ret, mcall, mret, raised, last_search_results,
                   replaced, requests, fargs, fout, session, run_ret>>

----------------------------------------------------------------------------
(* Specifications *)

NoCall == [submissions |-> <<>>, fault |-> NoFault, keywords |-> <<>>,
           include_comments |-> FALSE, include_selftext |-> TRUE, min_score |-> 0]

NoMultiCall ==
    [subreddits |-> <<>>, reddit |-> [n \in SubredditNames |-> [submissions |-> <<>>, fault |-> NoFault]],
     args |-> [keywords |-> <<>>, include_comments |-> FALSE,
               include_selftext |-> TRUE, min_score |-> 0]]

\* st.session_state['filters'] as main() initialises it
NoFilters == [min_score |-> 0, date_from |-> None, date_to |-> None,
              show_only_with_comments |-> FALSE]

----------------------------------------------------------------------------
(* The session of the UI: run_search and the button handlers of main() *)

\* st.session_state.results: None, or the dict of the last successful search
NoneResults == [type |-> "NoneType", items |-> <<>>]
Dict(items) == [type |-> "dict", items |-> items]

\* truth value of st.session_state.results: None and the empty dict are false
ResultsTruthy(results) == results.type = "dict" /\ results.items # <<>>

\* st.session_state as main() initialises it (lines 349-361)
NoSession ==
    [results |-> NoneResults, scraper |-> "None", search_history |-> <<>>,
     filters |-> NoFilters]

\* sum(len(results) for results in st.session_state.results.values())
RECURSIVE total_results(_)
total_results(items) ==
    IF items = <<>> THEN 0 ELSE Len(Head(items).posts) + total_results(Tail(items))

\* a mutant of search_info: total_results counts the groups instead of the
\* posts
search_info_counting_groups(subreddits, keywords, items) ==
    [subreddits |-> subreddits, keywords |-> keywords, total_results |-> Len(items)]

\* the entry run_search adds to the search history (lines 70-76); its
\* timestamp, the wall-clock time of the search, is left out
search_info(subreddits, keywords, items) ==
    [subreddits |-> subreddits, keywords |-> keywords,
     total_results |-> total_results(items)]

\* a mutant of search_failed: the stored results are discarded when the
\* search fails
search_failed_discarding(st) == [st EXCEPT !.results = NoneResults]

\* the `except Exception` branch of run_search (lines 80-82) and its early
\* return (lines 39-41): an error message is shown, the session is not
\* written to
search_failed(st) == st

\* lines 56 and 68: the dict run_search stores for the value r.ret the
\* scraper returned
stored_results(subreddits, r) ==
    IF Len(subreddits) = 1
    THEN <<[key |-> subreddits[1], posts |-> r.ret]>>
    ELSE r.ret

\* run_search(subreddits, keywords, ...) on the session state st, the scraper's
\* last_search_results being self_last.  ret is its return value.  r is the
\* outcome of the one scraper call of the try block (r ranges over the set of
\* that one outcome)
run_search(st, self_last, subreddits, reddit, args) ==
    IF st.scraper = "None"
    THEN [ret |-> FALSE, session |-> search_failed(st), exc |-> "none",
          last_search_results |-> self_last, replaced |-> {}, requests |-> <<>>]
    ELSE
        CHOOSE outcome \in
            { IF r.exc # "none"
              THEN [ret |-> FALSE, session |-> search_failed(st), exc |-> r.exc,
                    last_search_results |-> r.last_search_results,
                    replaced |-> r.replaced, requests |-> r.requests]
              ELSE [ret |-> TRUE,
                    session |-> [st EXCEPT
                                   !.results = Dict(stored_results(subreddits, r)),
                                   !.search_history =
                                       Append(@, search_info(subreddits, args.keywords,
                                                             stored_results(subreddits, r)))],
                    exc |-> "none",
                    last_search_results |-> r.last_search_results,
                    replaced |-> r.replaced, requests |-> r.requests] :
              r \in { IF Len(subreddits) = 1
                      THEN scrape_subreddit(self_last, subreddits[1],
                                            reddit[subreddits[1]], args)
                      ELSE search_multiple_subreddits(self_last, subreddits,
                                                      reddit, args) } } : TRUE

\* the filter widgets of the Results tab are shown only while there are
\* results; when they are shown for the first time the two date inputs hold
\* None (`value=None`), the number input and the checkbox hold the stored
\* values.  Lines 432-445 store the widgets' values in the filters
filters_shown(filters, shown_before) ==
    IF shown_before
    THEN filters
    ELSE [filters EXCEPT !.date_from = None, !.date_to = None]

\* the subreddit lists, the keyword lists and the search arguments of a
\* session
SessionSubredditLists == { <<>>, <<"cuny">>, <<"cuny", "college">> }
SessionKeywordLists == { <<>>, <<KwLower>> }
SessionSearchArgs ==
    [keywords : SessionKeywordLists, include_comments : BOOLEAN,
     include_selftext : {TRUE}, min_score : {0}]

\* reddit as the searches of a session meet it
SessionReddits ==
    { reddit \in Reddits :
        <<reddit["cuny"], reddit["college"]>> \in
            { <<[submissions |-> Listing(<<Loud>>), fault |-> NoFault],
                [submissions |-> Listing(<<Quiet, Loud>>), fault |-> NoFault]>>,
              <<[submissions |-> Listing(<<>>), fault |-> NoFault],
                [submissions |-> Listing(<<Loud>>), fault |-> NoFault]>>,
              <<[submissions |-> Listing(<<Loud>>), fault |-> NoFault],
                [submissions |-> Listing(<<Loud>>), fault |-> ListingFault(2)]>>,
              <<[submissions |-> Listing(<<Quiet>>), fault |-> CommentsFault(1)],
                [submissions |-> Listing(<<Loud>>), fault |-> NoFault]>> } }

\* the values the user gives the filter widgets
SessionFilterPool ==
    { NoFilters,
      [NoFilters EXCEPT !.min_score = 1, !.show_only_with_comments = TRUE],
      [NoFilters EXCEPT !.date_from = Date(1)] }

\* "Initialize API Connection": initialize_scraper stores a new scraper in the
\* session, or fails and stores nothing
InitializeScraper ==
    /\ \E ok \in BOOLEAN :
         /\ pc' = "initialize_scraper"
         /\ session' = IF ok
                       THEN [session EXCEPT !.scraper = "EnhancedRedditScraper"]
                       ELSE session
         /\ last_search_results' = IF ok THEN <<>> ELSE last_search_results
    /\ UNCHANGED <<call, ret, mcall, mret, raised, replaced, requests, run_ret,
                   fargs, fresults, ffilters, fout, fout2>>

\* "Run Search": main() refuses an empty subreddit or keyword list, otherwise
\* it calls run_search; then the page is drawn, the filter widgets with it
\* when there are results
RunSearch ==
    /\ Len(session.search_history) < MaxHistory
    /\ \E subreddits \in SessionSubredditLists, reddit \in SessionReddits,
          args \in SessionSearchArgs :
         IF subreddits = <<>> \/ args.keywords = <<>>
         THEN /\ pc' = "search_refused"
              /\ session' = [session EXCEPT
                               !.filters = IF ResultsTruthy(session.results)
                                           THEN filters_shown(@, TRUE) ELSE @]
              /\ UNCHANGED <<run_ret, raised, last_search_results, replaced, requests>>
         ELSE \E r \in { run_search(session, last_search_results, subreddits,
                                    reddit, args) } :
                  /\ pc' = "run_search"
                  /\ run_ret' = r.ret
                  /\ session' = [r.session EXCEPT
                                   !.filters =
                                       IF ResultsTruthy(r.session.results)
                                       THEN filters_shown(@, ResultsTruthy(session.results))
                                       ELSE @]
                  /\ raised' = r.exc
                  /\ last_search_results' = r.last_search_results
                  /\ replaced' = r.replaced
                  /\ requests' = r.requests
    /\ UNCHANGED <<call, ret, mcall, mret, fargs, fresults, ffilters, fout, fout2>>

\* "Clear Results": lines 401-403; st.rerun() ends the run, and the next run
\* finds no results and draws no filter widget
ClearResults ==
    /\ pc' = "clear_results"
    /\ session' = [session EXCEPT !.results = NoneResults]
    /\ UNCHANGED <<call, ret, mcall, mret, raised, last_search_results, replaced,
                   requests, run_ret, fargs, fresults, ffilters, fout, fout2>>

\* "Apply Filters": the button is there while there are results; the values
\* of the filter widgets are stored in the session's filters and
\* filter_results is called on the stored results
ApplyFilters ==
    /\ ResultsTruthy(session.results)
    /\ \E filters \in SessionFilterPool :
         /\ pc' = "apply_filters"
         /\ session' = [session EXCEPT !.filters = filters]
         /\ fout' = filter_results(session.results.items, filters)
    /\ UNCHANGED <<call, ret, mcall, mret, raised, last_search_results, replaced,
                   requests, run_ret, fargs, fresults, ffilters, fout2>>

----------------------------------------------------------------------------
(* Initial state and specifications *)

Init ==
    /\ pc = "idle"
    /\ call = NoCall
    /\ ret = <<>>
    /\ mcall = NoMultiCall
    /\ mret = <<>>
    /\ raised = "none"
    /\ last_search_results = <<>>
    /\ replaced = {}
    /\ requests = <<>>
    /\ fargs = [results |-> <<>>, filters |-> NoFilters]
    /\ fresults = <<>>
    /\ ffilters = NoFilters
    /\ fout = Return(<<>>)
    /\ fout2 = Return(<<>>)
    /\ session = NoSession
    /\ run_ret = FALSE

Next == ScrapeSubreddit \/ SearchMultipleSubreddits

\* the scraper: one invocation of scrape_subreddit or of
\* search_multiple_subreddits
Spec == Init /\ [][Next]_vars

NextFilter == FilterResults \/ FilterResultsAgain

\* the post-hoc filter: an invocation of filter_results and a second one on
\* the same objects
SpecFilter == Init /\ [][NextFilter]_vars

NextSession == InitializeScraper \/ RunSearch \/ ClearResults \/ ApplyFilters

\* a session of the UI: any sequence of the four buttons, with at most
\* MaxHistory successful searches
SpecSession == Init /\ [][NextSession]_vars

----------------------------------------------------------------------------
(* What the claims speak of *)

\* two characters are the same letter, whatever their case
SameLetter(c, d) == c = d \/ {c, d} \in { {"a", "A"}, {"b", "B"} }

\* keyword is a case-insensitive substring of text
OccursIgnoringCase(keyword, text) ==
    \E off \in 0..(Len(text) - Len(keyword)) :
        \A j \in 1..Len(keyword) : SameLetter(keyword[j], text[off + j])

SomeKeywordOccurs(keywords, text) ==
    \E k \in 1..Len(keywords) : OccursIgnoringCase(keywords[k], text)

\* some keyword occurs in one of the first n comments of the submission
SomeCommentHasKeyword(submission, keywords, n) ==
    \E i \in 1..Len(submission.comments) :
        i <= n /\ SomeKeywordOccurs(keywords, submission.comments[i].body)

Ids(posts) == [i \in 1..Len(posts) |-> posts[i].id]
IdSet(posts) == { posts[i].id : i \in 1..Len(posts) }

\* scrape_subreddit was called / was called and returned
ScrapeCalled == pc = "scrape_subreddit"
Scraped == ScrapeCalled /\ raised = "none"

\* the inclusion predicate of the matcher, the comment search reaching the
\* first n comments
Qualifies(submission, n) ==
    /\ submission.score >= call.min_score
    /\ \/ SomeKeywordOccurs(call.keywords, submission.title)
       \/ call.include_selftext /\ SomeKeywordOccurs(call.keywords, submission.selftext)
       \/ call.include_comments /\ SomeCommentHasKeyword(submission, call.keywords, n)

\* C1 as stated: the result of scrape_subreddit is exactly the retrieved posts
\* with score >= min_score and a keyword in the title, or (include_selftext)
\* in the body, or (include_comments) in the body of some comment of the post.
C1_ResultIsExactlyTheQualifying ==
    Scraped =>
        Ids(ret) = Ids(SelectSeq(call.submissions,
                                 LAMBDA s : Qualifies(s, Len(s.comments))))

\* C1 as amended: the result of scrape_subreddit is exactly the retrieved
\* posts, in the order retrieved, with score >= min_score and a keyword in the
\* title, or (include_selftext) in the body, or (include_comments) in the body
\* of one of the first 20 comments of the post's flattened comment list.
C1_ResultIsExactlyTheQualifyingFirst20 ==
    Scraped =>
        Ids(ret) = Ids(SelectSeq(call.submissions, LAMBDA s : Qualifies(s, 20)))

\* a post whose only keyword is in its 21st comment is left out while another
\* post of the same listing is returned
C1_Witness ==
    /\ Scraped
    /\ ret # <<>>
    /\ \E i \in 1..Len(call.submissions) :
         /\ Qualifies(call.submissions[i], Len(call.submissions[i].comments))
         /\ ~Qualifies(call.submissions[i], 20)
         /\ i \notin IdSet(ret)

\* C3: a post with score < min_score is never in the result of
\* scrape_subreddit, keyword or not; a post whose score equals min_score and
\* whose title holds a keyword is in the result.
C3_ScoreThreshold ==
    Scraped =>
        \A i \in 1..Len(call.submissions) :
            LET s == call.submissions[i] IN
            /\ s.score < call.min_score => i \notin IdSet(ret)
            /\ (s.score = call.min_score /\ SomeKeywordOccurs(call.keywords, s.title))
                  => i \in IdSet(ret)

\* a post below min_score with a keyword in its title is left out, and a post
\* whose score equals min_score is returned
C3_Witness ==
    /\ Scraped
    /\ \E i \in 1..Len(call.submissions) :
         /\ call.submissions[i].score < call.min_score
         /\ SomeKeywordOccurs(call.keywords, call.submissions[i].title)
         /\ i \notin IdSet(ret)
    /\ \E j \in 1..Len(call.submissions) :
         /\ call.submissions[j].score = call.min_score
         /\ j \in IdSet(ret)

\* C4: a post none of whose title, body and comment bodies holds a keyword
\* (case-insensitively) is not in the result of scrape_subreddit, whatever its
\* score and the include_selftext / include_comments flags.
C4_NoKeywordNoResult ==
    Scraped =>
        \A i \in 1..Len(call.submissions) :
            LET s == call.submissions[i] IN
            (/\ ~SomeKeywordOccurs(call.keywords, s.title)
             /\ ~SomeKeywordOccurs(call.keywords, s.selftext)
             /\ ~SomeCommentHasKeyword(s, call.keywords, Len(s.comments)))
                => i \notin IdSet(ret)

\* with keywords given and both flags set, a post at or above min_score without
\* any keyword is left out while another post is returned
C4_Witness ==
    /\ Scraped
    /\ call.keywords # <<>>
    /\ call.include_selftext /\ call.include_comments
    /\ ret # <<>>
    /\ \E i \in 1..Len(call.submissions) :
         LET s == call.submissions[i] IN
         /\ s.score >= call.min_score
         /\ ~SomeKeywordOccurs(call.keywords, s.title)
         /\ ~SomeKeywordOccurs(call.keywords, s.selftext)
         /\ ~SomeCommentHasKeyword(s, call.keywords, Len(s.comments))
         /\ i \notin IdSet(ret)

----------------------------------------------------------------------------
(* What the claims about filter_results speak of *)

Filtered == pc = "filter_results"

Returned == Filtered /\ fout.status = "return"

\* the posts of all groups of a grouped result set
RECURSIVE AllPosts(_)
AllPosts(results) ==
    IF results = <<>> THEN <<>> ELSE Head(results).posts \o AllPosts(Tail(results))

Keys(results) == [g \in 1..Len(results) |-> results[g].key]

\* the creation time of a post is written as '%Y-%m-%d %H:%M:%S'
Parseable(post) ==
    /\ Len(post.created_utc) = 2
    /\ post.created_utc[2] \in 0..(TicksPerDay - 1)

DateBoundSet(filters) ==
    filters.date_from.type # "NoneType" \/ filters.date_to.type # "NoneType"

\* the creation time is not before the bound: a calendar date bounds by the
\* day, a date-time by the instant; no bound does not constrain
NotBefore(post, bound) ==
    CASE bound.type = "NoneType" -> TRUE
      [] bound.type = "date" -> post.created_utc[1] >= bound.day
      [] bound.type = "datetime" ->
            \/ post.created_utc[1] > bound.day
            \/ post.created_utc[1] = bound.day /\ post.created_utc[2] >= bound.tick

NotAfter(post, bound) ==
    CASE bound.type = "NoneType" -> TRUE
      [] bound.type = "date" -> post.created_utc[1] <= bound.day
      [] bound.type = "datetime" ->
            \/ post.created_utc[1] < bound.day
            \/ post.created_utc[1] = bound.day /\ post.created_utc[2] <= bound.tick

\* the creation time lies within [date_from, date_to]; a creation time that
\* cannot be parsed lies in no range
WithinDates(post, filters) ==
    \/ ~DateBoundSet(filters)
    \/ /\ Parseable(post)
       /\ NotBefore(post, filters.date_from)
       /\ NotAfter(post, filters.date_to)

HasMatchingComments(post) ==
    "matching_comments" \in DOMAIN post /\ Len(post.matching_comments) > 0

\* the keep predicate of the post-hoc filter
Keeps(post, filters) ==
    /\ post.score >= filters.min_score
    /\ WithinDates(post, filters)
    /\ (filters.show_only_with_comments => HasMatchingComments(post))

\* C2: filter_results returns, for every group of every grouped result set
\* and every filter criteria, exactly the posts with score >= min_score, a
\* creation time within [date_from, date_to] (an unset bound not constraining)
\* and, when show_only_with_comments is set, a non-empty matching_comments.
C2_FilterIsExactlyTheKept ==
    Filtered =>
        /\ fout.status = "return"
        /\ Keys(fout.value) = Keys(fresults)
        /\ \A g \in 1..Len(fresults) :
             fout.value[g].posts =
                 SelectSeq(fresults[g].posts, LAMBDA p : Keeps(p, ffilters))

\* what filter_results returns when it is called again on what it returned
\* (an exception of the first call propagates)
FilteredAgain ==
    IF fout.status = "return" THEN filter_results(fout.value, ffilters) ELSE fout

\* C5: filter_results is idempotent: filtering the result of
\* filter_results(R, F) again with F gives that result again.
C5_Idempotent == Filtered => FilteredAgain = fout

\* a date bound and the comment flag are set, the call returns, it drops a
\* post and keeps a post
C5_Witness ==
    /\ Returned
    /\ DateBoundSet(ffilters)
    /\ ffilters.show_only_with_comments
    /\ AllPosts(fout.value) # <<>>
    /\ Len(AllPosts(fout.value)) < Len(AllPosts(fresults))

\* seq is sub with elements left out, the order kept
IsSubsequence(sub, seq) ==
    \E f \in [1..Len(sub) -> 1..Len(seq)] :
        /\ \A i \in 1..Len(sub) : sub[i] = seq[f[i]]
        /\ \A i, j \in 1..Len(sub) : i < j => f[i] < f[j]

\* C6: filter_results is a stable filter: the groups of the mapping returned
\* are those of the input in the same order, and the posts of every group are
\* a subsequence of the input group's posts.
C6_StableFilter ==
    Returned =>
        /\ Keys(fout.value) = Keys(fresults)
        /\ \A g \in 1..Len(fresults) :
             IsSubsequence(fout.value[g].posts, fresults[g].posts)

\* two groups are returned, one of them with two posts of the input
C6_Witness ==
    /\ Returned
    /\ Len(fout.value) = 2
    /\ \E g \in 1..Len(fout.value) : Len(fout.value[g].posts) = 2

\* C7: the mapping filter_results returns has exactly the keys of its input:
\* a group all of whose posts are filtered out maps to an empty list.
C7_KeysRetained ==
    Returned =>
        /\ Len(fout.value) = Len(fresults)
        /\ { fout.value[g].key : g \in 1..Len(fout.value) }
               = { fresults[g].key : g \in 1..Len(fresults) }
        /\ \A g \in 1..Len(fresults) :
             (\A i \in 1..Len(fresults[g].posts) :
                 ~Keeps(fresults[g].posts[i], ffilters))
                => \E h \in 1..Len(fout.value) :
                      fout.value[h].key = fresults[g].key /\ fout.value[h].posts = <<>>

\* a group with a post comes back empty beside a group that keeps its post
C7_Witness ==
    /\ Returned
    /\ \E g, h \in 1..Len(fresults) :
         /\ fresults[g].posts # <<>>
         /\ fout.value[g].posts = <<>>
         /\ fout.value[h].posts # <<>>

\* C8: with a date bound set, a post whose created_utc cannot be parsed is
\* left out and filter_results still returns a mapping: it does not raise.
C8_UnparseableDateIsSkipped ==
    (/\ Filtered
     /\ DateBoundSet(ffilters)
     /\ \E i \in 1..Len(AllPosts(fresults)) : ~Parseable(AllPosts(fresults)[i]))
        => /\ fout.status = "return"
           /\ \A i \in 1..Len(AllPosts(fout.value)) : Parseable(AllPosts(fout.value)[i])

\* C9: the date range is inclusive on both ends: of the posts that pass the
\* score and the comment checks, filter_results keeps those created at
\* date_from, at date_to or between them and drops those created before
\* date_from or after date_to; an unset bound does not constrain its side.
C9_InclusiveDateRange ==
    (/\ Filtered
     /\ \A i \in 1..Len(AllPosts(fresults)) : Parseable(AllPosts(fresults)[i]))
        => /\ fout.status = "return"
           /\ \A i \in 1..Len(AllPosts(fresults)) :
                LET p == AllPosts(fresults)[i] IN
                (/\ p.score >= ffilters.min_score
                 /\ (ffilters.show_only_with_comments => HasMatchingComments(p)))
                   => (p.id \in IdSet(AllPosts(fout.value))
                          <=> /\ NotBefore(p, ffilters.date_from)
                              /\ NotAfter(p, ffilters.date_to))

\* C10: with show_only_with_comments set, a post without the matching_comments
\* key and a post with an empty matching_comments list are dropped, and a post
\* with a matching comment that passes the score and date checks is kept; with
\* the flag unset a post is kept exactly when it passes the score and date
\* checks, whatever its matching_comments.
C10_CommentFlag ==
    Returned =>
        \A i \in 1..Len(AllPosts(fresults)) :
            LET p == AllPosts(fresults)[i]
                kept == p.id \in IdSet(AllPosts(fout.value))
                passes == p.score >= ffilters.min_score /\ WithinDates(p, ffilters)
            IN  IF ffilters.show_only_with_comments
                THEN /\ "matching_comments" \notin DOMAIN p => ~kept
                     /\ ("matching_comments" \in DOMAIN p /\ p.matching_comments = <<>>)
                           => ~kept
                     /\ (HasMatchingComments(p) /\ passes) => kept
                ELSE kept <=> passes

\* with the flag set, a post that passes the score check is dropped for its
\* empty matching_comments list and a post with a matching comment is kept
C10_Witness ==
    /\ Returned
    /\ ffilters.show_only_with_comments
    /\ \E i, j \in 1..Len(AllPosts(fresults)) :
         LET p == AllPosts(fresults)[i]
             q == AllPosts(fresults)[j]
         IN  /\ "matching_comments" \in DOMAIN p
             /\ p.matching_comments = <<>>
             /\ p.score >= ffilters.min_score
             /\ p.id \notin IdSet(AllPosts(fout.value))
             /\ HasMatchingComments(q)
             /\ q.id \in IdSet(AllPosts(fout.value))

----------------------------------------------------------------------------
(* The multi-subreddit search and the failures of the API *)

\* search_multiple_subreddits was called / was called and returned
MultiCalled == pc = "search_multiple_subreddits"
MultiReturned == MultiCalled /\ raised = "none"

Elements(seq) == { seq[i] : i \in 1..Len(seq) }

\* the keys of a returned mapping
KeySet(mapping) == { mapping[i].key : i \in 1..Len(mapping) }

\* the list a returned mapping holds for a key
Lookup(mapping, key) ==
    LET i == CHOOSE i \in 1..Len(mapping) : mapping[i].key = key
    IN  mapping[i].posts

\* does the API fail during a scrape_subreddit call: the listing fails while
\* it is read, or the comments of a submission that the call loads fail
ApiFails(api, args) ==
    \/ api.fault.kind = "listing"
    \/ /\ api.fault.kind = "comments"
       /\ args.include_comments
       /\ api.submissions[api.fault.at].score >= args.min_score

CallApi == [submissions |-> call.submissions, fault |-> call.fault]
CallArgs == [keywords |-> call.keywords, include_comments |-> call.include_comments,
             include_selftext |-> call.include_selftext, min_score |-> call.min_score]

\* the positions of the subreddit list at which the API fails
FailingPositions ==
    { i \in 1..Len(mcall.subreddits) :
        ApiFails(mcall.reddit[mcall.subreddits[i]], mcall.args) }

FirstFailing == CHOOSE i \in FailingPositions : \A j \in FailingPositions : i <= j

\* C11: the mapping search_multiple_subreddits returns has exactly the
\* requested names as its keys, each once, and each key's list is the list
\* scrape_subreddit returns for that subreddit alone with the same arguments
\* (so it is empty for a subreddit without a match, and no list depends on
\* another subreddit's posts).
C11_MappingOfSingleScrapes ==
    MultiReturned =>
        /\ KeySet(mret) = Elements(mcall.subreddits)
        /\ \A i, j \in 1..Len(mret) : mret[i].key = mret[j].key => i = j
        /\ \A i \in 1..Len(mret) :
             mret[i].posts =
                 scrape_subreddit(<<>>, mret[i].key, mcall.reddit[mret[i].key],
                                  mcall.args).ret

\* two subreddits were searched, one without a match (its key is there, with
\* the empty list) and one with a match; a name asked for twice has one key
C11_Witness ==
    /\ MultiReturned
    /\ \E a, b \in KeySet(mret) :
         /\ Lookup(mret, a) = <<>>
         /\ mcall.reddit[a].submissions # <<>>
         /\ Lookup(mret, b) # <<>>

\* C12: empty inputs give zero results and no error: with an empty keyword
\* list scrape_subreddit returns the empty list whatever posts the listing
\* yields, with an empty subreddit list search_multiple_subreddits returns
\* the empty mapping, and when no post matches (and the API does not fail)
\* both return, with an empty list per subreddit.
C12_EmptyInputs ==
    /\ (ScrapeCalled /\ ~ApiFails(CallApi, CallArgs) /\ call.keywords = <<>>)
          => (raised = "none" /\ ret = <<>>)
    /\ (MultiCalled /\ mcall.subreddits = <<>>)
          => (raised = "none" /\ mret = <<>>)
    /\ (/\ ScrapeCalled
        /\ ~ApiFails(CallApi, CallArgs)
        /\ \A i \in 1..Len(call.submissions) :
              ~Qualifies(call.submissions[i], Len(call.submissions[i].comments)))
          => (raised = "none" /\ ret = <<>>)
    /\ (/\ MultiCalled
        /\ FailingPositions = {}
        /\ mcall.args.keywords = <<>>)
          => (raised = "none" /\ \A i \in 1..Len(mret) : mret[i].posts = <<>>)

\* scrape_subreddit was called with no keyword on a listing of MaxPosts posts
\* whose comments were loaded
C12_Witness ==
    /\ ScrapeCalled
    /\ call.keywords = <<>>
    /\ call.include_comments
    /\ Len(call.submissions) = MaxPosts
    /\ replaced # {}
    /\ ret = <<>>

\* C13: when the API fails while a subreddit's listing is read or a post's
\* comments are loaded, the exception of the API leaves scrape_subreddit and
\* search_multiple_subreddits unchanged; the call does not return (so there
\* is no partial result), and the listing of the failing subreddit was
\* requested once (no retry); the subreddits after the failing one are not
\* requested.
C13_ApiFailurePropagates ==
    /\ (ScrapeCalled /\ ApiFails(CallApi, CallArgs))
          => /\ raised = call.fault.exc
             /\ raised # "none"
             /\ requests = <<SingleSubreddit>>
    /\ (MultiCalled /\ FailingPositions # {})
          => /\ raised = mcall.reddit[mcall.subreddits[FirstFailing]].fault.exc
             /\ raised # "none"
             /\ requests = SubSeq(mcall.subreddits, 1, FirstFailing)

\* the second subreddit of a search failed after the first one had given a
\* non-empty list
C13_Witness ==
    /\ MultiCalled
    /\ FailingPositions # {}
    /\ FirstFailing = 2
    /\ last_search_results # <<>>
    /\ raised # "none"

\* the orders in which the subreddits of a list can be processed
ProcessingOrders(seq) ==
    { p \in [1..Len(seq) -> Elements(seq)] :
        \E f \in [1..Len(seq) -> 1..Len(seq)] :
            /\ \A i, j \in 1..Len(seq) : f[i] = f[j] => i = j
            /\ \A i \in 1..Len(seq) : p[i] = seq[f[i]] }

\* the search of the last call, had the subreddits been processed in `order`
ProcessedIn(order) ==
    search_multiple_subreddits(<<>>, order, mcall.reddit, mcall.args)

\* equal as mappings: the same keys, the same list for each key
SameMapping(m1, m2) ==
    /\ KeySet(m1) = KeySet(m2)
    /\ \A k \in KeySet(m1) : Lookup(m1, k) = Lookup(m2, k)

ListOfLast(mapping, order) ==
    IF order = <<>> THEN <<>> ELSE Lookup(mapping, order[Len(order)])

CommentsLoaded ==
    { <<SingleSubreddit, call.submissions[i].id>> :
        i \in { j \in 1..Len(call.submissions) :
                  call.include_comments /\ call.submissions[j].score >= call.min_score } }

\* the state that neither scrape_subreddit nor search_multiple_subreddits
\* touches is as it was at the construction
FilterStateUntouched ==
    /\ fargs = [results |-> <<>>, filters |-> NoFilters]
    /\ fresults = <<>>
    /\ ffilters = NoFilters
    /\ fout = Return(<<>>)
    /\ fout2 = Return(<<>>)

\* C15 as stated: a scrape_subreddit call that returned has left the scraper's
\* fields and the API's objects as they were before the call (at the
\* construction: last_search_results empty, no comment forest changed).
C15_NoSideEffect ==
    Scraped =>
        /\ last_search_results = <<>>
        /\ replaced = {}
        /\ FilterStateUntouched

\* C15, amended: besides returning its list, scrape_subreddit requests one
\* listing, stores the returned list in the scraper's last_search_results
\* and, when include_comments is true, calls replace_more on the comment
\* forest of every listed submission with score >= min_score, which changes
\* these objects of the API client; it changes nothing else.
C15_EffectsOfScrape ==
    Scraped =>
        /\ last_search_results = ret
        /\ replaced = CommentsLoaded
        /\ requests = <<SingleSubreddit>>
        /\ mcall = NoMultiCall /\ mret = <<>>
        /\ FilterStateUntouched

\* a call that returned a non-empty list, loaded the comments of one
\* submission and skipped another one for its score
C15_Witness ==
    /\ Scraped
    /\ ret # <<>>
    /\ last_search_results = ret
    /\ replaced # {}
    /\ \E i \in 1..Len(call.submissions) :
         <<SingleSubreddit, call.submissions[i].id>> \notin replaced

----------------------------------------------------------------------------
(* The matching comments and the keyword test *)

\* the submission of the last call's listing that a returned post was built
\* from
SubmissionOf(post) ==
    call.submissions[CHOOSE i \in 1..Len(call.submissions) :
                        call.submissions[i].id = post.id]

FirstComments(submission, n) ==
    SubSeq(submission.comments, 1,
           IF Len(submission.comments) < n THEN Len(submission.comments) ELSE n)

\* the comments among the first n whose own body holds a keyword, in their
\* order
CommentsWithKeyword(submission, keywords, n) ==
    SelectSeq(FirstComments(submission, n),
              LAMBDA c : SomeKeywordOccurs(keywords, c.body))

\* C16: a post returned by scrape_subreddit has the matching_comments field
\* only if include_comments was true and a keyword occurs in one of the
\* post's comments, and then the list is not empty; with include_comments
\* false no returned post has the field.
C16_MatchingCommentsField ==
    Scraped =>
        \A i \in 1..Len(ret) :
            LET p == ret[i]
                s == SubmissionOf(p)
            IN  /\ "matching_comments" \in DOMAIN p
                     => /\ call.include_comments
                        /\ SomeCommentHasKeyword(s, call.keywords, Len(s.comments))
                        /\ p.matching_comments # <<>>
                /\ ~call.include_comments => "matching_comments" \notin DOMAIN p

\* with include_comments true, one returned post has the field and another
\* one, returned for its title, has not
C16_Witness ==
    /\ Scraped
    /\ call.include_comments
    /\ \E i, j \in 1..Len(ret) :
         /\ "matching_comments" \in DOMAIN ret[i]
         /\ "matching_comments" \notin DOMAIN ret[j]

\* C17: with include_comments true, the matching_comments of a returned post
\* are exactly the examined comments (the first 20 of the flattened list)
\* whose own body holds a keyword, in their order; the field is missing when
\* there is none.  A comment without a keyword is never in the list.
C17_ExactlyTheMatchingComments ==
    (Scraped /\ call.include_comments) =>
        \A i \in 1..Len(ret) :
            LET p == ret[i]
                expected == CommentsWithKeyword(SubmissionOf(p), call.keywords,
                                                CommentLimit)
            IN  IF expected = <<>>
                THEN "matching_comments" \notin DOMAIN p
                ELSE /\ "matching_comments" \in DOMAIN p
                     /\ [k \in 1..Len(p.matching_comments) |-> p.matching_comments[k].body]
                           = [k \in 1..Len(expected) |-> expected[k].body]

\* a returned post whose title holds a keyword has two matching comments,
\* and a comment between them that holds no keyword is left out
C17_Witness ==
    /\ Scraped
    /\ call.include_comments
    /\ \E i \in 1..Len(ret) :
         /\ SomeKeywordOccurs(call.keywords, ret[i].title)
         /\ "matching_comments" \in DOMAIN ret[i]
         /\ Len(ret[i].matching_comments) = 2
         /\ Len(SubmissionOf(ret[i]).comments) = 3

NoEmptyKeyword(keywords) == \A k \in 1..Len(keywords) : keywords[k] # <<>>

\* C18 as stated: whatever the keyword list, the body predicate is false for
\* a submission with empty body text, and such a post is returned only if a
\* keyword occurs in its title or in one of its comments.
C18_EmptyBodyNeverMatches ==
    Scraped =>
        /\ \A i \in 1..Len(call.submissions) :
              call.submissions[i].selftext = <<>>
                 => ~selftext_match(call.submissions[i], call.keywords,
                                    call.include_selftext)
        /\ \A i \in 1..Len(ret) :
              ret[i].text = <<>>
                 => \/ SomeKeywordOccurs(call.keywords, ret[i].title)
                    \/ SomeCommentHasKeyword(SubmissionOf(ret[i]), call.keywords,
                                             CommentLimit)

\* C18, amended: for every keyword list without an empty-string keyword the
\* body predicate is false for a submission with empty body text; for every
\* keyword list a post with empty body text is returned only if a keyword
\* occurs in its title or (include_comments) in one of its examined comments.
C18_EmptyBodyNeedsNonEmptyKeyword ==
    Scraped =>
        /\ \A i \in 1..Len(call.submissions) :
              (call.submissions[i].selftext = <<>> /\ NoEmptyKeyword(call.keywords))
                 => ~selftext_match(call.submissions[i], call.keywords,
                                    call.include_selftext)
        /\ \A i \in 1..Len(ret) :
              ret[i].text = <<>>
                 => \/ SomeKeywordOccurs(call.keywords, ret[i].title)
                    \/ /\ call.include_comments
                       /\ SomeCommentHasKeyword(SubmissionOf(ret[i]), call.keywords,
                                                CommentLimit)

\* the body was searched for non-empty keywords; a post with empty body text
\* and a sufficient score was not returned, a post with a keyword in its body
\* was
C18_Witness ==
    /\ Scraped
    /\ call.include_selftext
    /\ call.keywords # <<>>
    /\ NoEmptyKeyword(call.keywords)
    /\ \E i, j \in 1..Len(call.submissions) :
         /\ call.submissions[i].selftext = <<>>
         /\ call.submissions[i].score >= call.min_score
         /\ call.submissions[i].id \notin IdSet(ret)
         /\ call.submissions[j].selftext # <<>>
         /\ ~SomeKeywordOccurs(call.keywords, call.submissions[j].title)
         /\ call.submissions[j].id \in IdSet(ret)

\* the other case of a letter
SwapCase(c) ==
    CASE c = "a" -> "A"
      [] c = "A" -> "a"
      [] c = "b" -> "B"
      [] c = "B" -> "b"
      [] OTHER -> c

SwapCaseText(text) == [i \in 1..Len(text) |-> SwapCase(text[i])]

\* the keyword lists that differ from `keywords` in the case of one keyword
CaseVariants(keywords) ==
    { [keywords EXCEPT ![k] = SwapCaseText(keywords[k])] : k \in 1..Len(keywords) }

\* the texts the last call tested: titles, bodies and comment bodies
TextsTested ==
    UNION { {call.submissions[i].title, call.submissions[i].selftext}
            \cup { call.submissions[i].comments[j].body :
                     j \in 1..Len(call.submissions[i].comments) } :
            i \in 1..Len(call.submissions) }

\* keyword occurs in text letter for letter, in the same case
OccursLiterally(keyword, text) ==
    \E off \in 0..(Len(text) - Len(keyword)) :
        \A j \in 1..Len(keyword) : keyword[j] = text[off + j]

\* C19: the keyword test holds for a text exactly when some keyword occurs
\* in it as a contiguous substring, case ignored (anywhere, also inside a
\* longer word); changing the case of a keyword or of the text does not
\* change its outcome.
C19_CaseInsensitiveSubstring ==
    ScrapeCalled =>
        \A text \in TextsTested :
            /\ any_keyword_in(call.keywords, text)
                  <=> SomeKeywordOccurs(call.keywords, text)
            /\ any_keyword_in(call.keywords, SwapCaseText(text))
                  <=> any_keyword_in(call.keywords, text)
            /\ \A variant \in CaseVariants(call.keywords) :
                  any_keyword_in(variant, text) <=> any_keyword_in(call.keywords, text)

\* a post was returned for its title alone: the keyword is shorter than the
\* title, occurs in it at a later position and only when case is ignored
C19_Witness ==
    /\ Scraped
    /\ ~call.include_selftext
    /\ ~call.include_comments
    /\ Len(call.keywords) = 1
    /\ \E i \in 1..Len(ret) :
         /\ Len(call.keywords[1]) < Len(ret[i].title)
         /\ ~OccursLiterally(call.keywords[1], ret[i].title)
         /\ OccursIgnoringCase(call.keywords[1], SubSeq(ret[i].title, 2, Len(ret[i].title)))

----------------------------------------------------------------------------
(* The filter's frame *)

FilteredTwice == pc = "filter_results_again"

\* the scraper's state is as it was at the construction
ScraperStateUntouched ==
    /\ call = NoCall /\ ret = <<>>
    /\ mcall = NoMultiCall /\ mret = <<>>
    /\ raised = "none"
    /\ last_search_results = <<>>
    /\ replaced = {}
    /\ requests = <<>>

----------------------------------------------------------------------------
(* The filter with the criteria of the UI *)

\* a date bound as the UI's date inputs deliver it: None or a datetime.date
FromDateInput(bound) == bound.type \in {"NoneType", "date"}

\* C21 as stated: with date bounds as the date inputs deliver them and a
\* result set of the scraper (every creation time written by strftime),
\* filter_results returns a mapping and does not raise.
C21_FilterCompletesForUiCriteria ==
    (/\ Filtered
     /\ FromDateInput(fargs.filters.date_from)
     /\ FromDateInput(fargs.filters.date_to)
     /\ \A i \in 1..Len(AllPosts(fargs.results)) : Parseable(AllPosts(fargs.results)[i]))
        => fout.status = "return"

\* C22: the comment search reaches the first 20 comments of the flattened
\* list only: matching_comments never has more than 20 entries, and a post
\* with no keyword in its title or body whose only keyword occurrences are in
\* comments after the 20th is not returned.
C22_OnlyFirstTwentyComments ==
    Scraped =>
        /\ \A i \in 1..Len(ret) :
              "matching_comments" \in DOMAIN ret[i]
                 => Len(ret[i].matching_comments) <= 20
        /\ \A i \in 1..Len(call.submissions) :
              LET s == call.submissions[i] IN
              (/\ ~SomeKeywordOccurs(call.keywords, s.title)
               /\ ~SomeKeywordOccurs(call.keywords, s.selftext)
               /\ SomeCommentHasKeyword(s, call.keywords, Len(s.comments))
               /\ ~SomeCommentHasKeyword(s, call.keywords, 20))
                  => s.id \notin IdSet(ret)

\* a post with 21 comments that all hold a keyword was returned with the
\* first 20 of them
C22_Witness ==
    /\ Scraped
    /\ call.include_comments
    /\ \E i \in 1..Len(ret) :
         LET s == SubmissionOf(ret[i]) IN
         /\ Len(s.comments) = 21
         /\ \A j \in 1..21 : SomeKeywordOccurs(call.keywords, s.comments[j].body)
         /\ "matching_comments" \in DOMAIN ret[i]
         /\ Len(ret[i].matching_comments) = 20

----------------------------------------------------------------------------
(* The session *)

\* the step is a "Run Search" in which run_search was called and returned
\* False / True
RunSearchFailed == pc' = "run_search" /\ ~run_ret'
RunSearchSucceeded == pc' = "run_search" /\ run_ret'

\* the number of posts in the stored results
StoredPosts(results) == Len(AllPosts(results.items))

\* C23: a run_search that fails (no scraper in the session, or the scraper
\* raised during a single- or multi-subreddit search) returns False and
\* leaves the session's stored results and its search history as they were
\* before the call.
C23_FailedSearchLeavesSession ==
    [][RunSearchFailed =>
          /\ session'.results = session.results
          /\ session'.search_history = session.search_history]_vars

\* a search over two subreddits failed at the second one after an earlier
\* search had succeeded: the stored results and the one history entry are
\* those of the earlier search, while the scraper has scraped the first
\* subreddit
C23_Witness ==
    /\ pc = "run_search"
    /\ ~run_ret
    /\ raised # "none"
    /\ Len(requests) = 2
    /\ ResultsTruthy(session.results)
    /\ Len(session.results.items) = 1
    /\ Len(session.search_history) = 1
    /\ Len(session.search_history[1].subreddits) = 1

\* C24: in a session the search history only grows; a successful run_search
\* appends exactly one entry, whose total_results is the number of posts in
\* the results stored by that search; Clear Results sets the stored results
\* to None and leaves the search history and the filters as they were.
C24_HistoryOnlyGrows ==
    [][/\ Len(session'.search_history) >= Len(session.search_history)
       /\ SubSeq(session'.search_history, 1, Len(session.search_history))
             = session.search_history
       /\ RunSearchSucceeded =>
             /\ Len(session'.search_history) = Len(session.search_history) + 1
             /\ session'.search_history[Len(session'.search_history)].total_results
                   = StoredPosts(session'.results)
       /\ ~RunSearchSucceeded =>
             session'.search_history = session.search_history
       /\ pc' = "clear_results" =>
             /\ session'.results = NoneResults
             /\ session'.search_history = session.search_history
             /\ session'.filters = session.filters]_vars

\* after MaxHistory successful searches, the last one with posts in two
\* subreddits, and a change of the filters, the results were cleared: the
\* history and the filters are still there
C24_Witness ==
    /\ pc = "clear_results"
    /\ session.results = NoneResults
    /\ Len(session.search_history) = MaxHistory
    /\ session.search_history[MaxHistory].total_results >= 2
    /\ session.filters # NoFilters

====
